---- MODULE Spec2Model ----
(***************************************************************************)
(* Level-Up Fitness: the session / page state machine of the Streamlit app *)
(* (src/.ipynb_checkpoints/app-checkpoint.py, the revision with the        *)
(* current_page router and the workout log; src/app.py is the older        *)
(* revision of the same functions) and the data-access calls it issues     *)
(* against the hosted tables.                                              *)
(*                                                                         *)
(* One action is one user interaction: the script pass that handles the    *)
(* widget event and, when the handler calls st.rerun(), the pass that      *)
(* follows it.  The tables are generic keyed-row stores: a call either     *)
(* raises (the argument failAt names the call of the handler that raises)  *)
(* or takes effect and returns the rows it touched.                        *)
(***************************************************************************)
EXTENDS Integers, Sequences, FiniteSets, TLC

VARIABLES
    users,          \* table "users": sequence of rows, in insertion order
    profiles,       \* table "profiles"
    workout_logs,   \* table "workout_logs"
    workouts,       \* table "workouts" (AI workout plans)
    meals,          \* table "meals" (AI meal plans)
    weight_log,     \* table "weight_log"
    next_id,        \* the identifier the store gives the next inserted data row
    logged_in,      \* st.session_state.logged_in, per session
    user,           \* st.session_state.user: <<>> (None) or <<row>>
    profile,        \* st.session_state.profile: <<>> (None) or <<dict>>
    current_page,   \* st.session_state.current_page
    selected_date,  \* st.session_state.selected_date
    confirm_box,    \* the clear-all confirmation checkbox is on the session's screen
    quick_add,      \* the quick-add candidates on the session's screen
    pending,        \* the signup a session's script is in the middle of
    passes,         \* the script passes of the last interaction
    returned,       \* user_id of every row a data-access call returned in them
    last            \* the last interaction and what it reported

tables == <<users, profiles, workout_logs, workouts, meals, weight_log, next_id>>
session == <<logged_in, user, profile, current_page, selected_date, confirm_box,
             quick_add, pending>>
vars == <<tables, session, passes, returned, last>>

-----------------------------------------------------------------------------
(* Bounds of the model *)

MaxUsers == 2       \* rows of the users table
MaxRows == 2        \* data rows inserted in a run of Spec
MaxProfileRows == 4 \* data rows inserted in a run of SpecProfile

(* Input alphabets *)
Sessions == {1, 2}
Usernames == {"", "ann", "bob"}
Passwords == {"", "pw1", "pw2"}
Emails == {""}

(* Values a column holds when the insert did not set it, and the id of a   *)
(* session profile dict that has no "id" key (identifiers start at 1)      *)
NullStr == "NULL"
NullNum == 0 - 1
NoId == 0

(* datetime.now() / date.today(): day numbers; %Y-%m-%d strings order as   *)
(* the days do *)
Today == 10
Dates == {Today - 8, Today}
strftime(d) == <<"%Y-%m-%d", d>>

None == <<>>
Some(x) == <<x>>

SeqToSet(q) == {q[i] : i \in 1..Len(q)}

-----------------------------------------------------------------------------
(* hash_password: a deterministic unsalted digest of the raw password *)
hash_password(password) == <<"sha256", password>>

(* supabase.table(t).select("*").eq(f, v): the rows that match, in order *)
SelectEq(tbl, f, v) == SelectSeq(tbl, LAMBDA r : r[f] = v)

-----------------------------------------------------------------------------
(* signup_user(username, password, email) against table tbl.               *)
(* failAt: 0 no call raises, 1 the select raises, 2 the insert raises.     *)
signup_userNoCheck(tbl, username, password, email, failAt) ==
    IF failAt # 0
    THEN [ok |-> FALSE, msg |-> "Error", users |-> tbl]
    ELSE [ok |-> TRUE, msg |-> "Signup successful! Please login.",
          users |-> Append(tbl, [id |-> Len(tbl) + 1, username |-> username,
                                 password |-> hash_password(password),
                                 email |-> email])]

signup_userInsertBeforeError(tbl, username, password, email, failAt) ==
    IF failAt = 1
    THEN [ok |-> FALSE, msg |-> "Error", users |-> tbl]
    ELSE IF SelectEq(tbl, "username", username) # <<>>
    THEN [ok |-> FALSE, msg |-> "Username already exists", users |-> tbl]
    ELSE [ok |-> failAt # 2,
          msg |-> IF failAt = 2 THEN "Error" ELSE "Signup successful! Please login.",
          users |-> Append(tbl, [id |-> Len(tbl) + 1, username |-> username,
                                 password |-> hash_password(password),
                                 email |-> email])]

signup_user(tbl, username, password, email, failAt) ==
    IF failAt = 1
    THEN [ok |-> FALSE, msg |-> "Error", users |-> tbl]
    ELSE IF SelectEq(tbl, "username", username) # <<>>
    THEN [ok |-> FALSE, msg |-> "Username already exists", users |-> tbl]
    ELSE IF failAt = 2
    THEN [ok |-> FALSE, msg |-> "Error", users |-> tbl]
    ELSE [ok |-> TRUE, msg |-> "Signup successful! Please login.",
          users |-> Append(tbl, [id |-> Len(tbl) + 1, username |-> username,
                                 password |-> hash_password(password),
                                 email |-> email])]

(* login_user(username, password): failAt 1 the select raises *)
login_userRawPassword(tbl, username, password, failAt) ==
    IF failAt = 1
    THEN [ok |-> FALSE, msg |-> "Error", user |-> None]
    ELSE LET result == SelectSeq(tbl, LAMBDA r :
                           r.username = username /\ r.password = password)
         IN IF result # <<>>
            THEN [ok |-> TRUE, msg |-> "", user |-> Some(result[1])]
            ELSE [ok |-> FALSE, msg |-> "Invalid username or password", user |-> None]

login_userNamesUnknownUser(tbl, username, password, failAt) ==
    IF failAt = 1
    THEN [ok |-> FALSE, msg |-> "Error", user |-> None]
    ELSE LET result == SelectSeq(tbl, LAMBDA r :
                           r.username = username /\ r.password = hash_password(password))
         IN IF result # <<>>
            THEN [ok |-> TRUE, msg |-> "", user |-> Some(result[1])]
            ELSE IF SelectEq(tbl, "username", username) = <<>>
            THEN [ok |-> FALSE, msg |-> "Unknown username", user |-> None]
            ELSE [ok |-> FALSE, msg |-> "Invalid username or password", user |-> None]

login_user(tbl, username, password, failAt) ==
    IF failAt = 1
    THEN [ok |-> FALSE, msg |-> "Error", user |-> None]
    ELSE LET result == SelectSeq(tbl, LAMBDA r :
                           r.username = username /\ r.password = hash_password(password))
         IN IF result # <<>>
            THEN [ok |-> TRUE, msg |-> "", user |-> Some(result[1])]
            ELSE [ok |-> FALSE, msg |-> "Invalid username or password", user |-> None]

(* get_user_profile(user_id): the first matching row, None when there is   *)
(* none or when the select raises (the exception is caught and reported)   *)
get_user_profile(tbl, user_id, failAt) ==
    IF failAt = 1 THEN None
    ELSE LET result == SelectEq(tbl, "user_id", user_id)
         IN IF result # <<>> THEN Some(result[1]) ELSE None

-----------------------------------------------------------------------------
(* save_user_profile(user_id, profile_data): update every row of the user   *)
(* when one exists, else insert one row with user_id attached; returns the *)
(* first row the write returned, None when a call raised.                  *)
(* failAt: 1 the select raises, 2 the update / insert raises.              *)
PutFields(r, d) ==
    [r EXCEPT !.name = d.name, !.age = d.age, !.gender = d.gender,
              !.height = d.height, !.weight = d.weight,
              !.target_weight = d.target_weight]

UpdateWhere(tbl, Match(_), Change(_)) ==
    [i \in 1..Len(tbl) |-> IF Match(tbl[i]) THEN Change(tbl[i]) ELSE tbl[i]]

DeleteWhere(tbl, Match(_)) == SelectSeq(tbl, LAMBDA r : ~Match(r))

NewProfileRow(id, user_id, d) ==
    [id |-> id, user_id |-> user_id, name |-> d.name, age |-> d.age,
     gender |-> d.gender, height |-> d.height, weight |-> d.weight,
     target_weight |-> d.target_weight]

save_user_profileAlwaysInsert(tbl, id, user_id, profile_data, failAt) ==
    IF failAt # 0
    THEN [profiles |-> tbl, saved |-> None]
    ELSE [profiles |-> Append(tbl, NewProfileRow(id, user_id, profile_data)),
          saved |-> Some(NewProfileRow(id, user_id, profile_data))]

save_user_profile(tbl, id, user_id, profile_data, failAt) ==
    IF failAt = 1
    THEN [profiles |-> tbl, saved |-> None]
    ELSE LET existing == SelectEq(tbl, "user_id", user_id)
         IN IF failAt = 2
            THEN [profiles |-> tbl, saved |-> None]
            ELSE IF existing # <<>>
            THEN LET upd == UpdateWhere(tbl, LAMBDA r : r.user_id = user_id,
                                        LAMBDA r : PutFields(r, profile_data))
                 IN [profiles |-> upd,
                     saved |-> Some(SelectEq(upd, "user_id", user_id)[1])]
            ELSE [profiles |-> Append(tbl, NewProfileRow(id, user_id, profile_data)),
                  saved |-> Some(NewProfileRow(id, user_id, profile_data))]

-----------------------------------------------------------------------------
(* Workout-log data access *)

(* .order(column, desc=True): q ordered by the keys k (k[i] the key of q[i]), *)
(* largest first *)
Without(q, i) == SubSeq(q, 1, i - 1) \o SubSeq(q, i + 1, Len(q))

RECURSIVE OrderDesc(_, _)
OrderDesc(q, k) ==
    IF q = <<>> THEN <<>>
    ELSE LET i == CHOOSE m \in 1..Len(q) :
                      /\ \A j \in 1..Len(q) : k[j] <= k[m]
                      /\ \A j \in 1..(m - 1) : k[j] < k[m]
         IN <<q[i]>> \o OrderDesc(Without(q, i), Without(k, i))

ByCreatedAt(q) == OrderDesc(q, [i \in 1..Len(q) |-> q[i].created_at])
ByDate(q) == OrderDesc(q, [i \in 1..Len(q) |-> q[i].date[2]])

(* get_workout_logs(user_id, selected_date); selected_date None = no date filter *)
get_workout_logsAnyUser(tbl, user_id, sel) ==
    ByCreatedAt(SelectSeq(tbl, LAMBDA r : sel = None \/ r.date = strftime(sel[1])))

get_workout_logs(tbl, user_id, sel) ==
    ByCreatedAt(SelectSeq(tbl, LAMBDA r :
                    /\ r.user_id = user_id
                    /\ (sel = None \/ r.date = strftime(sel[1]))))

(* save_workout_log(user_id, exercise_data): failAt 1 the insert raises *)
save_workout_log(tbl, id, user_id, exercise_data, failAt) ==
    IF failAt = 1
    THEN [workout_logs |-> tbl, saved |-> None]
    ELSE LET row == [id |-> id, user_id |-> user_id,
                     date |-> strftime(exercise_data.date),
                     exercise |-> exercise_data.exercise,
                     sets |-> exercise_data.sets, reps |-> exercise_data.reps,
                     weight |-> exercise_data.weight, notes |-> exercise_data.notes,
                     completed |-> exercise_data.completed, created_at |-> id]
         IN [workout_logs |-> Append(tbl, row), saved |-> Some(row)]

(* update_workout_log(log_id, {"completed": c}): failAt 1 the update raises *)
update_workout_logAll(tbl, log_id, completed, failAt) ==
    IF failAt = 1 THEN tbl
    ELSE UpdateWhere(tbl, LAMBDA r : TRUE, LAMBDA r : [r EXCEPT !.completed = completed])

update_workout_logClearsNotes(tbl, log_id, completed, failAt) ==
    IF failAt = 1 THEN tbl
    ELSE UpdateWhere(tbl, LAMBDA r : r.id = log_id,
                     LAMBDA r : [r EXCEPT !.completed = completed, !.notes = NullStr])

update_workout_log(tbl, log_id, completed, failAt) ==
    IF failAt = 1 THEN tbl
    ELSE UpdateWhere(tbl, LAMBDA r : r.id = log_id,
                     LAMBDA r : [r EXCEPT !.completed = completed])

(* delete_workout_log(log_id): failAt 1 the delete raises *)
delete_workout_log(tbl, log_id, failAt) ==
    IF failAt = 1 THEN tbl ELSE DeleteWhere(tbl, LAMBDA r : r.id = log_id)

(* get_workout_summary(user_id, days): rows with date >= today - days *)
get_workout_summary(tbl, user_id, days) ==
    SelectSeq(tbl, LAMBDA r : r.user_id = user_id /\ r.date[2] >= strftime(Today - days)[2])

(* .select(..).eq("user_id", uid).order("date", desc=True).limit(n) *)
Limit(q, n) == SubSeq(q, 1, IF Len(q) < n THEN Len(q) ELSE n)

RecentWorkouts(tbl, user_id) ==
    Limit(ByDate(SelectEq(tbl, "user_id", user_id)), 5)

(* a plan row of workouts / meals *)
PlanRow(id, user_id, plan) ==
    [id |-> id, user_id |-> user_id, date |-> strftime(Today), plan |-> plan]

(* a weight_log row *)
WeightRow(id, user_id, weight) ==
    [id |-> id, user_id |-> user_id, date |-> strftime(Today), weight |-> weight]

(* the profiles row the progress page inserts: only weight and user_id set *)
WeightOnlyProfileRow(id, user_id, weight) ==
    [id |-> id, user_id |-> user_id, name |-> NullStr, age |-> NullNum,
     gender |-> NullStr, height |-> NullNum, weight |-> weight,
     target_weight |-> NullNum]

(* the dict show_profile puts in the session when it holds no profile; it  *)
(* has no "id" and no "user_id" key                                        *)
DefaultProfile ==
    [id |-> NoId, user_id |-> NoId, name |-> "", age |-> 16,
     gender |-> "Prefer not to say", height |-> 170, weight |-> 60,
     target_weight |-> 60]

(* Python truth of profile.get("name") *)
HasName(prof) == prof # None /\ prof[1].name \notin {"", NullStr}

Owners(q) == {q[i].user_id : i \in 1..Len(q)}

-----------------------------------------------------------------------------
(* main(): which page handler the router runs for a session state *)
AuthPages == {"profile", "workout_log", "ai_workout", "ai_meal", "progress", "settings"}
Pages == {"login", "signup"} \cup AuthPages

mainMisroute(li, page) ==
    IF ~li
    THEN IF page = "login" THEN "login" ELSE "profile"
    ELSE IF page \in AuthPages THEN page ELSE "none"

main(li, page) ==
    IF ~li
    THEN IF page = "login" THEN "login"
         ELSE IF page = "signup" THEN "signup"
         ELSE "none"
    ELSE IF page \in AuthPages THEN page ELSE "none"

(* one script pass: the handler main() dispatched to, and the logged_in    *)
(* flag and the presence of a session user it ran with                     *)
Pass(li, page, usr) ==
    [handler |-> main(li, page), logged_in |-> li, has_user |-> usr # None]

-----------------------------------------------------------------------------
(* show_profile, on every pass that renders it: a session without a        *)
(* profile gets the default dict *)
RenderProfile(li, page, prof) ==
    IF main(li, page) = "profile" /\ prof = None THEN Some(DefaultProfile) ELSE prof

(* The rows one pass reads for display: show_user_info (only with a        *)
(* profile in the session) and the page handler's own queries.  The value  *)
(* is the set of user_id of the rows returned.                             *)
ReadsOf(logs, weights, plans, li, page, usr, prof, sd) ==
    IF ~li \/ usr = None THEN {}
    ELSE LET uid == usr[1].id
             today_logs == Owners(get_workout_logs(logs, uid, Some(sd)))
             week == Owners(get_workout_summary(logs, uid, 7))
             month == Owners(get_workout_summary(logs, uid, 30))
         IN (IF prof # None THEN today_logs ELSE {})
            \cup (CASE main(li, page) = "workout_log" /\ prof # None ->
                          today_logs \cup week
                    [] main(li, page) = "progress" /\ prof # None ->
                          Owners(SelectEq(weights, "user_id", uid)) \cup month \cup week
                    [] main(li, page) = "settings" ->
                          Owners(RecentWorkouts(plans, uid))
                    [] OTHER -> {})

Uid(usr) == IF usr = None THEN NoId ELSE usr[1].id

(* What an interaction was and what it reported: the widget (kind), the    *)
(* form inputs, whether the handler reported success, its message, and     *)
(* whether a storage call raised in it                                     *)
Ev(kind, ok, msg, input, raised) ==
    [kind |-> kind, ok |-> ok, msg |-> msg, input |-> input, raised |-> raised]

(* The end of an interaction: the session fields as the handler left them  *)
(* (li2 .. sd2), the pass that handled the event (first) and, when the     *)
(* handler called st.rerun(), the pass that follows.                       *)
Finish(s, ev, uid, first, rerun, extra, li2, usr2, prof2, page2, sd2) ==
    /\ logged_in' = [logged_in EXCEPT ![s] = li2]
    /\ user' = [user EXCEPT ![s] = usr2]
    /\ profile' = [profile EXCEPT ![s] =
                     IF rerun THEN RenderProfile(li2, page2, prof2) ELSE prof2]
    /\ current_page' = [current_page EXCEPT ![s] = page2]
    /\ selected_date' = [selected_date EXCEPT ![s] = sd2]
    /\ last' = [s |-> s, kind |-> ev.kind, ok |-> ev.ok, msg |-> ev.msg,
                input |-> ev.input, raised |-> ev.raised, uid |-> uid]
    /\ passes' = IF rerun THEN <<first, Pass(li2, page2, usr2)>> ELSE <<first>>
    /\ returned' = extra
                   \cup ReadsOf(workout_logs, weight_log, workouts, logged_in[s],
                                current_page[s], user[s], profile[s], selected_date[s])
                   \cup (IF rerun
                         THEN ReadsOf(workout_logs', weight_log', workouts', li2,
                                      page2, usr2, prof2, sd2)
                         ELSE {})

(* An interaction other than the press of "Clear All Workout Data": no     *)
(* pass of it renders the confirmation checkbox, which exists only inside  *)
(* the body of that button's if.  cands are the quick-add candidates the   *)
(* last pass of the interaction rendered; the script has run to its end.   *)
CommitWith(s, cands, ev, uid, first, rerun, extra, li2, usr2, prof2, page2, sd2) ==
    /\ Finish(s, ev, uid, first, rerun, extra, li2, usr2, prof2, page2, sd2)
    /\ confirm_box' = [confirm_box EXCEPT ![s] = FALSE]
    /\ quick_add' = [quick_add EXCEPT ![s] = cands]
    /\ pending' = [pending EXCEPT ![s] = None]

(* an interaction whose last pass renders no quick-add candidate: they     *)
(* exist only inside the body of `if generate:` of show_ai_workout         *)
Commit(s, ev, uid, first, rerun, extra, li2, usr2, prof2, page2, sd2) ==
    CommitWith(s, <<>>, ev, uid, first, rerun, extra, li2, usr2, prof2, page2, sd2)

(* the session fields left as they are *)
Stay(s, ev, rerun, extra) ==
    Commit(s, ev, Uid(user[s]), Pass(logged_in[s], current_page[s], user[s]), rerun,
           extra, logged_in[s], user[s], profile[s], current_page[s], selected_date[s])

(* a pass that show_navbar ends with st.rerun() before main() routes *)
NavbarPass(li, usr) == [handler |-> "none", logged_in |-> li, has_user |-> usr # None]

(* the handler a new interaction of session s reaches; none while the      *)
(* session's script is still inside signup_user                            *)
Handler(s) == IF pending[s] # None THEN "busy" ELSE main(logged_in[s], current_page[s])

-----------------------------------------------------------------------------
Init ==
    /\ users = <<>>
    /\ profiles = <<>>
    /\ workout_logs = <<>>
    /\ workouts = <<>>
    /\ meals = <<>>
    /\ weight_log = <<>>
    /\ next_id = 1
    /\ logged_in = [s \in Sessions |-> FALSE]
    /\ user = [s \in Sessions |-> None]
    /\ profile = [s \in Sessions |-> None]
    /\ current_page = [s \in Sessions |-> "login"]
    /\ selected_date = [s \in Sessions |-> Today]
    /\ confirm_box = [s \in Sessions |-> FALSE]
    /\ quick_add = [s \in Sessions |-> <<>>]
    /\ pending = [s \in Sessions |-> None]
    /\ passes = <<>>
    /\ returned = {}
    /\ last = [s |-> 0, kind |-> "init", ok |-> TRUE, msg |-> "", input |-> <<>>,
               raised |-> 0, uid |-> NoId]

-----------------------------------------------------------------------------
(* In the events below "raised" is the storage call of the handler that   *)
(* raised (0: none did).                                                   *)

(* show_login: the login form is submitted.  failAt 1: the users select    *)
(* raises; failProfile 1: the profiles select of get_user_profile raises   *)
(* (call 2 of the handler).                                                *)
show_login(s, username, password, failAt, failProfile) ==
    /\ Handler(s) = "login"
    /\ UNCHANGED tables
    /\ IF username = "" \/ password = ""
       THEN Stay(s, Ev("login", FALSE, "Please enter both username and password",
                       <<username, password>>, 0), FALSE, {})
       ELSE LET res == login_user(users, username, password, failAt)
            IN IF res.ok
               THEN LET prof == get_user_profile(profiles, res.user[1].id, failProfile)
                    IN Commit(s, Ev("login", TRUE, "Login successful!",
                                    <<username, password>>,
                                    IF failProfile = 1 THEN 2 ELSE 0),
                              res.user[1].id,
                              Pass(logged_in[s], current_page[s], user[s]), TRUE,
                              Owners(prof), TRUE, res.user, prof, "profile",
                              selected_date[s])
               ELSE Stay(s, Ev("login", FALSE, res.msg, <<username, password>>, failAt),
                         FALSE, {})

(* show_login: "Sign Up Instead" *)
show_login_signup_instead(s) ==
    /\ Handler(s) = "login"
    /\ UNCHANGED tables
    /\ Commit(s, Ev("to_signup", TRUE, "", <<>>, 0), Uid(user[s]),
              Pass(logged_in[s], current_page[s], user[s]),
              TRUE, {}, logged_in[s], user[s], profile[s], "signup", selected_date[s])

(* show_signup: the signup form is submitted *)
show_signup(s, username, email, password, confirm_password, failAt) ==
    /\ Handler(s) = "signup"
    /\ UNCHANGED <<profiles, workout_logs, workouts, meals, weight_log, next_id>>
    /\ LET input == <<username, password, confirm_password>>
       IN IF username = "" \/ password = ""
          THEN /\ UNCHANGED users
               /\ Stay(s, Ev("signup", FALSE, "Username and password are required",
                             input, 0), FALSE, {})
          ELSE IF password # confirm_password
          THEN /\ UNCHANGED users
               /\ Stay(s, Ev("signup", FALSE, "Passwords don't match", input, 0),
                       FALSE, {})
          ELSE LET res == signup_user(users, username, password, email, failAt)
               IN /\ users' = res.users
                  /\ Len(users') <= MaxUsers
                  /\ IF res.ok
                     THEN Commit(s, Ev("signup", TRUE, res.msg, input, 0), Uid(user[s]),
                                 Pass(logged_in[s], current_page[s], user[s]), TRUE, {},
                                 logged_in[s], user[s], profile[s], "login",
                                 selected_date[s])
                     ELSE Stay(s, Ev("signup", FALSE, res.msg, input,
                                     IF res.msg = "Error" THEN failAt ELSE 0),
                               FALSE, {})

(* show_signup with signup_user as the two store calls it is: the          *)
(* existence select, then the insert.  Between them the script of another  *)
(* session can run.  show_signup_select: the form passes its checks and    *)
(* the select returns no row (existing.data is empty).                     *)
show_signup_select(s, username, email, password, confirm_password) ==
    /\ Handler(s) = "signup"
    /\ username # "" /\ password # ""
    /\ password = confirm_password
    /\ SelectEq(users, "username", username) = <<>>
    /\ pending' = [pending EXCEPT ![s] =
                     Some([username |-> username, password |-> password,
                           email |-> email])]
    /\ UNCHANGED <<tables, logged_in, user, profile, current_page, selected_date,
                   confirm_box, quick_add, passes, returned, last>>

(* show_signup_insert: the rest of signup_user and of the handler - the    *)
(* insert of the row, the success message, current_page = "login" and      *)
(* st.rerun()                                                              *)
show_signup_insert(s) ==
    /\ pending[s] # None
    /\ users' = Append(users, [id |-> Len(users) + 1,
                               username |-> pending[s][1].username,
                               password |-> hash_password(pending[s][1].password),
                               email |-> pending[s][1].email])
    /\ Len(users') <= MaxUsers
    /\ UNCHANGED <<profiles, workout_logs, workouts, meals, weight_log, next_id>>
    /\ Commit(s, Ev("signup", TRUE, "Signup successful! Please login.",
                    <<pending[s][1].username, pending[s][1].password,
                      pending[s][1].password>>, 0),
              Uid(user[s]), Pass(logged_in[s], current_page[s], user[s]), TRUE, {},
              logged_in[s], user[s], profile[s], "login", selected_date[s])

(* show_signup: "Login Instead" *)
show_signup_login_instead(s) ==
    /\ Handler(s) = "signup"
    /\ UNCHANGED tables
    /\ Commit(s, Ev("to_login", TRUE, "", <<>>, 0), Uid(user[s]),
              Pass(logged_in[s], current_page[s], user[s]),
              TRUE, {}, logged_in[s], user[s], profile[s], "login", selected_date[s])

(* show_navbar: one of the six page buttons *)
show_navbar(s, page) ==
    /\ logged_in[s]
    /\ UNCHANGED tables
    /\ Commit(s, Ev("nav", TRUE, "", <<page>>, 0), Uid(user[s]),
              NavbarPass(logged_in[s], user[s]), TRUE, {},
              logged_in[s], user[s], profile[s], page, selected_date[s])

(* show_navbar: the logout button *)
Logout(s, li2, usr2, prof2, page2) ==
    /\ logged_in[s]
    /\ UNCHANGED tables
    /\ Commit(s, Ev("logout", TRUE, "", <<>>, 0), Uid(user[s]),
              NavbarPass(logged_in[s], user[s]), TRUE, {},
              li2, usr2, prof2, page2, selected_date[s])

show_navbar_logoutKeepsFlag(s) == Logout(s, TRUE, None, None, "login")
show_navbar_logoutKeepsPage(s) == Logout(s, FALSE, None, None, current_page[s])
show_navbar_logoutKeepsProfile(s) == Logout(s, FALSE, None, profile[s], "login")

show_navbar_logout(s) == Logout(s, FALSE, None, None, "login")

-----------------------------------------------------------------------------
(* show_profile: the profile form is submitted (no st.rerun()).            *)
(* failAt as in save_user_profile.                                         *)
show_profile(s, profile_data, failAt) ==
    /\ Handler(s) = "profile"
    /\ LET res == save_user_profile(profiles, next_id, user[s][1].id, profile_data, failAt)
       IN /\ profiles' = res.profiles
          /\ next_id' = IF Len(res.profiles) > Len(profiles) THEN next_id + 1 ELSE next_id
          /\ UNCHANGED <<users, workout_logs, workouts, meals, weight_log>>
          /\ IF res.saved # None
             THEN Commit(s, Ev("save_profile", TRUE, "Profile saved successfully!",
                               <<profile_data>>, 0),
                         Uid(user[s]), Pass(logged_in[s], current_page[s], user[s]),
                         FALSE, Owners(res.saved), logged_in[s], user[s], res.saved,
                         current_page[s], selected_date[s])
             ELSE Stay(s, Ev("save_profile", FALSE, "Failed to save profile",
                             <<profile_data>>, failAt), FALSE, {})

(* show_workout_log: the date selector is changed *)
show_workout_log_dateMovesPage(s, d) ==
    /\ Handler(s) = "workout_log"
    /\ profile[s] # None
    /\ d # selected_date[s]
    /\ UNCHANGED tables
    /\ Commit(s, Ev("pick_date", TRUE, "", <<d>>, 0), Uid(user[s]),
              Pass(logged_in[s], current_page[s], user[s]), FALSE,
              Owners(get_workout_logs(workout_logs, user[s][1].id, Some(d))),
              logged_in[s], user[s], profile[s], "progress", d)

show_workout_log_date(s, d) ==
    /\ Handler(s) = "workout_log"
    /\ profile[s] # None
    /\ d # selected_date[s]
    /\ UNCHANGED tables
    /\ Commit(s, Ev("pick_date", TRUE, "", <<d>>, 0), Uid(user[s]),
              Pass(logged_in[s], current_page[s], user[s]), FALSE,
              Owners(get_workout_logs(workout_logs, user[s][1].id, Some(d))),
              logged_in[s], user[s], profile[s], current_page[s], d)

(* show_workout_log: "Add to Workout Log"; weight is the number input,     *)
(* stored only when positive; failAt 1: the insert raises                  *)
show_workout_log_add(s, exercise, sets, reps, weight, notes, failAt) ==
    /\ Handler(s) = "workout_log"
    /\ profile[s] # None
    /\ UNCHANGED <<users, profiles, workouts, meals, weight_log>>
    /\ LET input == <<exercise, sets, reps, weight, notes>>
       IN IF exercise = ""
          THEN /\ UNCHANGED <<workout_logs, next_id>>
               /\ Stay(s, Ev("add_log", FALSE, "", input, 0), FALSE, {})
          ELSE LET exercise_data ==
                       [date |-> selected_date[s], exercise |-> exercise,
                        sets |-> sets, reps |-> reps,
                        weight |-> IF weight > 0 THEN weight ELSE NullNum,
                        notes |-> notes, completed |-> FALSE]
                   res == save_workout_log(workout_logs, next_id, user[s][1].id,
                                           exercise_data, failAt)
               IN /\ workout_logs' = res.workout_logs
                  /\ next_id' = IF res.saved # None THEN next_id + 1 ELSE next_id
                  /\ IF res.saved # None
                     THEN Stay(s, Ev("add_log", TRUE, "Added", input, 0), TRUE,
                               Owners(res.saved))
                     ELSE Stay(s, Ev("add_log", FALSE, "Failed to save exercise",
                                     input, failAt), FALSE, {})

(* the rows the page lists, each with its checkbox and delete button *)
Listed(s) == get_workout_logs(workout_logs, user[s][1].id, Some(selected_date[s]))

(* show_workout_log: the completion checkbox of listed row i is flipped;   *)
(* failAt 1: the update raises (reported inside update_workout_log)        *)
show_workout_log_toggle(s, i, failAt) ==
    /\ Handler(s) = "workout_log"
    /\ profile[s] # None
    /\ i \in 1..Len(Listed(s))
    /\ workout_logs' = update_workout_log(workout_logs, Listed(s)[i].id,
                                          ~Listed(s)[i].completed, failAt)
    /\ UNCHANGED <<users, profiles, workouts, meals, weight_log, next_id>>
    /\ Stay(s, Ev("toggle_log", failAt = 0, "", <<Listed(s)[i].id>>, failAt), TRUE,
            Owners(SelectEq(workout_logs', "id", Listed(s)[i].id)))

(* show_workout_log: the delete button of listed row i; failAt 1: the      *)
(* delete raises (reported inside delete_workout_log)                      *)
show_workout_log_delete(s, i, failAt) ==
    /\ Handler(s) = "workout_log"
    /\ profile[s] # None
    /\ i \in 1..Len(Listed(s))
    /\ workout_logs' = delete_workout_log(workout_logs, Listed(s)[i].id, failAt)
    /\ UNCHANGED <<users, profiles, workouts, meals, weight_log, next_id>>
    /\ Stay(s, Ev("delete_log", failAt = 0, "Exercise deleted!", <<Listed(s)[i].id>>,
                  failAt), TRUE, {})

(* call_groq's result: <<marker, text>>; the marker is the error prefix    *)
(* of a failed call, "" for generated text                                 *)
ErrorMarker == "X"
Failed(result) == result[1] = ErrorMarker

(* The outcomes of requests.post in call_groq: the call raises (timeout,   *)
(* connection failure), or it returns a response with a status code and a  *)
(* body.  A body is text that is not JSON (json FALSE) or a JSON document, *)
(* a record.                                                               *)
Raises(exc) == [raises |-> TRUE, exc |-> exc]
Response(status_code, body) ==
    [raises |-> FALSE, status_code |-> status_code, body |-> body]
Text(raw) == [json |-> FALSE, doc |-> [raw |-> raw]]
Json(doc) == [json |-> TRUE, doc |-> doc]
Completion(content) == Json([choices |-> <<[message |-> [content |-> content]]>>])

(* r.json()["choices"][0]["message"]["content"] evaluates without raising *)
HasContent(body) ==
    /\ body.json
    /\ "choices" \in DOMAIN body.doc
    /\ Len(body.doc.choices) > 0
    /\ "message" \in DOMAIN body.doc.choices[1]
    /\ "content" \in DOMAIN body.doc.choices[1].message

(* call_groq: the content for status 200, the marked status and body text  *)
(* for any other status, the marked exception text for whatever raised     *)
(* inside the try (the request, r.json() or a subscript)                   *)
call_groqIgnoresStatus(r) ==
    IF r.raises THEN <<ErrorMarker, "Request failed", r.exc>>
    ELSE IF HasContent(r.body)
    THEN <<"", r.body.doc.choices[1].message.content>>
    ELSE <<ErrorMarker, "Request failed", "body">>

call_groq(r) ==
    IF r.raises THEN <<ErrorMarker, "Request failed", r.exc>>
    ELSE IF r.status_code = 200
    THEN IF HasContent(r.body)
         THEN <<"", r.body.doc.choices[1].message.content>>
         ELSE <<ErrorMarker, "Request failed", "body">>
    ELSE <<ErrorMarker, "Error", r.status_code, r.body>>

-----------------------------------------------------------------------------
(* Text: a str is the sequence of its characters (one-character strings).  *)
(* Times stands for the multiplication sign of the source ('×'), NL for    *)
(* the line feed.                                                          *)
Times == "U+00D7"
NL == "\n"
Sp == <<" ">>
Whitespace == {" ", "\t", NL}
DigitChars == <<"0", "1", "2", "3", "4", "5", "6", "7", "8", "9">>
Digits == SeqToSet(DigitChars)
UpperChars == <<"A", "B", "C", "D", "E", "F", "G", "H", "I", "J", "K", "L", "M",
                "N", "O", "P", "Q", "R", "S", "T", "U", "V", "W", "X", "Y", "Z">>
LowerChars == <<"a", "b", "c", "d", "e", "f", "g", "h", "i", "j", "k", "l", "m",
                "n", "o", "p", "q", "r", "s", "t", "u", "v", "w", "x", "y", "z">>

(* c in q, sub in q *)
In(c, q) == \E i \in 1..Len(q) : q[i] = c
Contains(q, sub) ==
    \E i \in 0..(Len(q) - Len(sub)) : SubSeq(q, i + 1, i + Len(sub)) = sub

(* q.lower(), q.replace(a, b), q[:n] *)
Lower(q) ==
    [i \in 1..Len(q) |->
        IF \E k \in 1..Len(UpperChars) : UpperChars[k] = q[i]
        THEN LowerChars[CHOOSE k \in 1..Len(UpperChars) : UpperChars[k] = q[i]]
        ELSE q[i]]
Replace(q, a, b) == [i \in 1..Len(q) |-> IF q[i] = a THEN b ELSE q[i]]
Slice(q, n) == SubSeq(q, 1, IF Len(q) < n THEN Len(q) ELSE n)

(* q.split(sep): the fields between separators, empty ones kept *)
RECURSIVE SplitOn(_, _)
SplitOn(q, seps) ==
    IF \A i \in 1..Len(q) : q[i] \notin seps
    THEN <<q>>
    ELSE LET k == CHOOSE i \in 1..Len(q) :
                      q[i] \in seps /\ \A j \in 1..(i - 1) : q[j] \notin seps
         IN <<SubSeq(q, 1, k - 1)>> \o SplitOn(SubSeq(q, k + 1, Len(q)), seps)

(* q.split(): the words between runs of whitespace *)
Words(q) == SelectSeq(SplitOn(q, Whitespace), LAMBDA w : w # <<>>)

(* sep.join(ws) *)
RECURSIVE Join(_, _)
Join(ws, sep) ==
    IF ws = <<>> THEN <<>>
    ELSE IF Len(ws) = 1 THEN ws[1]
    ELSE ws[1] \o sep \o Join(Tail(ws), sep)

(* int(q): the number an optionally signed run of digits denotes, None     *)
(* when int raises ValueError                                              *)
RECURSIVE DigitsValue(_)
DigitsValue(q) ==
    IF q = <<>> THEN 0
    ELSE 10 * DigitsValue(SubSeq(q, 1, Len(q) - 1))
         + (CHOOSE n \in 0..9 : DigitChars[n + 1] = q[Len(q)])

int(q) ==
    LET signed == q # <<>> /\ q[1] \in {"+", "-"}
        body == IF signed THEN Tail(q) ELSE q
    IN IF body = <<>> \/ \E i \in 1..Len(body) : body[i] \notin Digits
       THEN None
       ELSE Some(IF signed /\ q[1] = "-" THEN 0 - DigitsValue(body)
                 ELSE DigitsValue(body))

RECURSIVE Flatten(_)
Flatten(qs) == IF qs = <<>> THEN <<>> ELSE qs[1] \o Flatten(Tail(qs))

(* The quick-add scan of show_ai_workout over the generated text.          *)
(* ExerciseAt: ' '.join(parts[parts.index(part)+1:])[:30] for part =       *)
(* parts[i]; index is the first position that holds an equal word.         *)
MaxExercise == 30

ExerciseAt(parts, i) ==
    LET first == CHOOSE k \in 1..Len(parts) :
                     parts[k] = parts[i] /\ \A j \in 1..(k - 1) : parts[j] # parts[i]
    IN Slice(Join(SubSeq(parts, first + 1, Len(parts)), Sp), MaxExercise)

(* the candidates one line yields: the line must hold an 'x' and 'reps'    *)
(* (any case) or the multiplication sign; every word with an 'x' or the    *)
(* sign in it is a candidate when more than two characters follow it       *)
LineCandidates(line) ==
    IF In("x", line) /\ (Contains(Lower(line), <<"r", "e", "p", "s">>) \/ In(Times, line))
    THEN LET parts == Words(line)
             hits == SelectSeq([i \in 1..Len(parts) |-> i],
                               LAMBDA i : /\ In("x", parts[i]) \/ In(Times, parts[i])
                                          /\ Len(ExerciseAt(parts, i)) > 2)
         IN [k \in 1..Len(hits) |->
                [sets_reps |-> Replace(parts[hits[k]], Times, "x"),
                 exercise |-> ExerciseAt(parts, hits[k])]]
    ELSE <<>>

(* the candidates of the whole text, in order; a candidate whose exercise  *)
(* an earlier one already has gets no button: the button key is derived    *)
(* from the exercise, the duplicate key raises and `except: continue`      *)
(* drops it                                                                *)
Candidates(text) ==
    LET lines == SplitOn(text, {NL})
        all == Flatten([i \in 1..Len(lines) |-> LineCandidates(lines[i])])
    IN [k \in 1..Len(all) |->
           [sets_reps |-> all[k].sets_reps, exercise |-> all[k].exercise,
            button |-> \A j \in 1..(k - 1) : all[j].exercise # all[k].exercise]]

(* show_ai_workout: "Generate Workout".  An error-marked result raises in  *)
(* the handler (st.er) and is reported by its except clause; failAt 1: the *)
(* insert raises.  After the insert the pass renders the quick-add         *)
(* candidates of the text.  No st.rerun().                                 *)
show_ai_workout(s, result, failAt) ==
    /\ Handler(s) = "ai_workout"
    /\ HasName(profile[s])
    /\ UNCHANGED <<users, profiles, workout_logs, meals, weight_log>>
    /\ IF Failed(result) \/ failAt = 1
       THEN /\ UNCHANGED <<workouts, next_id>>
            /\ Stay(s, Ev("gen_workout", FALSE, "Error generating workout", <<result>>,
                          IF Failed(result) THEN 0 ELSE failAt), FALSE, {})
       ELSE /\ workouts' = Append(workouts, PlanRow(next_id, user[s][1].id, result))
            /\ next_id' = next_id + 1
            /\ CommitWith(s, Candidates(result[2]),
                          Ev("gen_workout", TRUE, "Workout Generated!", <<result>>, 0),
                          Uid(user[s]), Pass(logged_in[s], current_page[s], user[s]),
                          FALSE, {}, logged_in[s], user[s], profile[s], current_page[s],
                          selected_date[s])

(* show_ai_workout: the "Add" button of candidate i is pressed.  The       *)
(* button is created inside `if generate:`; go is the value generate has   *)
(* in the pass.  When the body runs: s, r = sets_reps.split('x')[:2], a    *)
(* field that is no number raises and the bare except skips the            *)
(* candidate; failAt 1: the insert raises inside save_workout_log, which   *)
(* reports it and returns None, and the handler goes on to its success     *)
(* message.  st.rerun() raises inside the bare except as well, so no       *)
(* second pass follows.                                                    *)
QuickAddIf(s, i, failAt, go) ==
    /\ Handler(s) = "ai_workout"
    /\ HasName(profile[s])
    /\ i \in 1..Len(quick_add[s])
    /\ quick_add[s][i].button
    /\ UNCHANGED <<users, profiles, workouts, meals, weight_log>>
    /\ LET c == quick_add[s][i]
           fields == SplitOn(c.sets_reps, {"x"})
           parsed == /\ In("x", c.sets_reps)
                     /\ int(fields[1]) # None
                     /\ int(fields[2]) # None
       IN IF ~(go /\ parsed)
          THEN /\ UNCHANGED <<workout_logs, next_id>>
               /\ Stay(s, Ev("quick_add", FALSE, "", <<c>>, 0), FALSE, {})
          ELSE LET exercise_data ==
                       [date |-> Today, exercise |-> c.exercise,
                        sets |-> int(fields[1])[1], reps |-> int(fields[2])[1],
                        weight |-> NullNum, notes |-> "", completed |-> FALSE]
                   res == save_workout_log(workout_logs, next_id, user[s][1].id,
                                           exercise_data, failAt)
               IN /\ workout_logs' = res.workout_logs
                  /\ next_id' = IF res.saved # None THEN next_id + 1 ELSE next_id
                  /\ IF res.saved # None
                     THEN Stay(s, Ev("quick_add", TRUE, "Added", <<c>>, 0), FALSE,
                               Owners(res.saved))
                     ELSE Stay(s, Ev("quick_add", FALSE, "Added", <<c>>, failAt),
                               FALSE, {})

QuickAddPressed(s, i, failAt, generate) ==
    QuickAddIf(s, i, failAt, TRUE)

QuickAdd(s, i, failAt, generate) ==
    QuickAddIf(s, i, failAt, generate)

(* The press reruns the script; in that pass the form was not submitted,   *)
(* generate is False.                                                      *)
show_ai_workout_add(s, i, failAt) ==
    QuickAdd(s, i, failAt, FALSE)

(* show_ai_meal: "Generate Meal Plan" *)
show_ai_mealStoresErrors(s, result, failAt) ==
    /\ Handler(s) = "ai_meal"
    /\ HasName(profile[s])
    /\ UNCHANGED <<users, profiles, workout_logs, workouts, weight_log>>
    /\ IF failAt = 1
       THEN /\ UNCHANGED <<meals, next_id>>
            /\ Stay(s, Ev("gen_meal", FALSE, "Error generating meal plan", <<result>>,
                          failAt), FALSE, {})
       ELSE /\ meals' = Append(meals, PlanRow(next_id, user[s][1].id, result))
            /\ next_id' = next_id + 1
            /\ Stay(s, Ev("gen_meal", ~Failed(result), "Meal Plan Generated!",
                          <<result>>, 0), FALSE, {})

show_ai_meal(s, result, failAt) ==
    /\ Handler(s) = "ai_meal"
    /\ HasName(profile[s])
    /\ UNCHANGED <<users, profiles, workout_logs, workouts, weight_log>>
    /\ IF Failed(result)
       THEN /\ UNCHANGED <<meals, next_id>>
            /\ Stay(s, Ev("gen_meal", FALSE, result[2], <<result>>, 0), FALSE, {})
       ELSE IF failAt = 1
       THEN /\ UNCHANGED <<meals, next_id>>
            /\ Stay(s, Ev("gen_meal", FALSE, "Error generating meal plan", <<result>>,
                          failAt), FALSE, {})
       ELSE /\ meals' = Append(meals, PlanRow(next_id, user[s][1].id, result))
            /\ next_id' = next_id + 1
            /\ Stay(s, Ev("gen_meal", TRUE, "Meal Plan Generated!", <<result>>, 0),
                    FALSE, {})

(* The profiles write an upsert by user_id would make (what                *)
(* save_user_profile does); with it in place of ProfileWeightWrite the     *)
(* statements of C8 and C9 hold in SpecProfile.                            *)
ProfileWeightWriteUpsert(tbl, id, prof, user_id, new_weight) ==
    IF SelectEq(tbl, "user_id", user_id) # <<>>
    THEN UpdateWhere(tbl, LAMBDA r : r.user_id = user_id,
                     LAMBDA r : [r EXCEPT !.weight = new_weight])
    ELSE Append(tbl, WeightOnlyProfileRow(id, user_id, new_weight))

(* show_progress: the profiles write of "Add Entry": the session profile's *)
(* row by its id or, when the session profile has no id, a new row         *)
ProfileWeightWrite(tbl, id, prof, user_id, new_weight) ==
    IF prof.id # NoId
    THEN UpdateWhere(tbl, LAMBDA r : r.id = prof.id,
                     LAMBDA r : [r EXCEPT !.weight = new_weight])
    ELSE Append(tbl, WeightOnlyProfileRow(id, user_id, new_weight))

(* show_progress: "Add Entry".  failAt 1: the weight_log insert raises;    *)
(* failAt 2: the profiles write raises (the weight_log row stays).         *)
show_progressRollsBack(s, new_weight, failAt) ==
    /\ Handler(s) = "progress"
    /\ profile[s] # None
    /\ UNCHANGED <<users, workout_logs, workouts, meals>>
    /\ IF failAt # 0
       THEN /\ UNCHANGED <<weight_log, profiles, next_id>>
            /\ Stay(s, Ev("add_weight", FALSE, "Error saving weight", <<new_weight>>,
                          failAt), FALSE, {})
       ELSE /\ weight_log' = Append(weight_log,
                                    WeightRow(next_id, user[s][1].id, new_weight))
            /\ profiles' = ProfileWeightWrite(profiles, next_id + 1, profile[s][1],
                                              user[s][1].id, new_weight)
            /\ next_id' = IF Len(profiles') > Len(profiles)
                          THEN next_id + 2 ELSE next_id + 1
            /\ Commit(s, Ev("add_weight", TRUE, "Weight added!", <<new_weight>>, 0),
                      Uid(user[s]), Pass(logged_in[s], current_page[s], user[s]),
                      TRUE, {}, logged_in[s], user[s],
                      Some([profile[s][1] EXCEPT !.weight = new_weight]),
                      current_page[s], selected_date[s])

show_progress(s, new_weight, failAt) ==
    /\ Handler(s) = "progress"
    /\ profile[s] # None
    /\ UNCHANGED <<users, workout_logs, workouts, meals>>
    /\ IF failAt = 1
       THEN /\ UNCHANGED <<weight_log, profiles, next_id>>
            /\ Stay(s, Ev("add_weight", FALSE, "Error saving weight", <<new_weight>>, 1),
                    FALSE, {})
       ELSE /\ weight_log' = Append(weight_log,
                                    WeightRow(next_id, user[s][1].id, new_weight))
            /\ IF failAt = 2
               THEN /\ UNCHANGED profiles
                    /\ next_id' = next_id + 1
                    /\ Stay(s, Ev("add_weight", FALSE, "Error saving weight",
                                  <<new_weight>>, 2), FALSE, {})
               ELSE /\ profiles' = ProfileWeightWrite(profiles, next_id + 1, profile[s][1],
                                                      user[s][1].id, new_weight)
                    /\ next_id' = IF Len(profiles') > Len(profiles)
                                  THEN next_id + 2 ELSE next_id + 1
                    /\ Commit(s, Ev("add_weight", TRUE, "Weight added!", <<new_weight>>, 0),
                              Uid(user[s]), Pass(logged_in[s], current_page[s], user[s]),
                              TRUE, {}, logged_in[s], user[s],
                              Some([profile[s][1] EXCEPT !.weight = new_weight]),
                              current_page[s], selected_date[s])

-----------------------------------------------------------------------------
(* show_settings *)

(* what the session shows when an exception leaves the script: no handler  *)
(* caught it, the framework prints the traceback and ends the pass         *)
Uncaught == "uncaught exception"

(* The checks of the password form in the order of the if / elif chain:    *)
(* the message of the first one that fails, "" when all pass.  usr is the  *)
(* session's user dict.                                                    *)
password_checkMismatchFirst(usr, current, new, confirm) ==
    IF new # confirm THEN "New passwords don't match"
    ELSE IF hash_password(current) # usr.password THEN "Current password is incorrect"
    ELSE IF new = "" THEN "New password cannot be empty"
    ELSE ""

password_check(usr, current, new, confirm) ==
    IF hash_password(current) # usr.password THEN "Current password is incorrect"
    ELSE IF new # confirm THEN "New passwords don't match"
    ELSE IF new = "" THEN "New password cannot be empty"
    ELSE ""

(* The else branch of the chain: the users update by id, then the          *)
(* assignment to the session's user dict.  failAt 1: the update raises, so *)
(* the assignment after it does not run.                                   *)
password_updateSessionFirst(tbl, usr, new, failAt) ==
    [users |-> IF failAt = 1 THEN tbl
               ELSE UpdateWhere(tbl, LAMBDA r : r.id = usr.id,
                                LAMBDA r : [r EXCEPT !.password = hash_password(new)]),
     user |-> [usr EXCEPT !.password = hash_password(new)]]

password_updateSessionOnly(tbl, usr, new, failAt) ==
    IF failAt = 1
    THEN [users |-> tbl, user |-> usr]
    ELSE [users |-> tbl, user |-> [usr EXCEPT !.password = hash_password(new)]]

password_update(tbl, usr, new, failAt) ==
    IF failAt = 1
    THEN [users |-> tbl, user |-> usr]
    ELSE [users |-> UpdateWhere(tbl, LAMBDA r : r.id = usr.id,
                                LAMBDA r : [r EXCEPT !.password = hash_password(new)]),
          user |-> [usr EXCEPT !.password = hash_password(new)]]

(* show_settings: the password form is submitted (no try / except around   *)
(* the update, no st.rerun())                                              *)
show_settings_password(s, current, new, confirm, failAt) ==
    /\ Handler(s) = "settings"
    /\ UNCHANGED <<profiles, workout_logs, workouts, meals, weight_log, next_id>>
    /\ LET input == <<current, new, confirm>>
           msg == password_check(user[s][1], current, new, confirm)
           res == password_update(users, user[s][1], new, failAt)
       IN IF msg # ""
          THEN /\ UNCHANGED users
               /\ Stay(s, Ev("change_password", FALSE, msg, input, 0), FALSE, {})
          ELSE /\ users' = res.users
               /\ Commit(s, IF failAt = 1
                            THEN Ev("change_password", FALSE, Uncaught, input, 1)
                            ELSE Ev("change_password", TRUE,
                                    "Password updated successfully!", input, 0),
                         Uid(user[s]), Pass(logged_in[s], current_page[s], user[s]),
                         FALSE, {}, logged_in[s], Some(res.user), profile[s],
                         current_page[s], selected_date[s])

(* The "Clear All Workout Data" block in one pass.  button is the value of *)
(* st.button in the pass, sure the value of the checkbox created inside    *)
(* the button's if, go the condition under which the deletes run.          *)
(* failAt 1: the workouts delete raises; 2: the workout_logs delete raises *)
(* (neither is inside a try).                                              *)
ClearAllIf(s, kind, button, sure, failAt, go) ==
    /\ Handler(s) = "settings"
    /\ UNCHANGED <<users, profiles, meals, weight_log, next_id>>
    /\ confirm_box' = [confirm_box EXCEPT ![s] = button /\ ~(go /\ failAt = 0)]
    /\ quick_add' = [quick_add EXCEPT ![s] = <<>>]
    /\ UNCHANGED pending
    /\ LET uid == user[s][1].id
           here == Pass(logged_in[s], current_page[s], user[s])
           end(ev, rerun) ==
               Finish(s, ev, uid, here, rerun, {}, logged_in[s], user[s], profile[s],
                      current_page[s], selected_date[s])
       IN IF ~go
          THEN /\ UNCHANGED <<workouts, workout_logs>>
               /\ end(Ev(kind, FALSE, "", <<button, sure>>, 0), FALSE)
          ELSE IF failAt = 1
          THEN /\ UNCHANGED <<workouts, workout_logs>>
               /\ end(Ev(kind, FALSE, Uncaught, <<button, sure>>, 1), FALSE)
          ELSE /\ workouts' = DeleteWhere(workouts, LAMBDA r : r.user_id = uid)
               /\ IF failAt = 2
                  THEN /\ UNCHANGED workout_logs
                       /\ end(Ev(kind, FALSE, Uncaught, <<button, sure>>, 2), FALSE)
                  ELSE /\ workout_logs' =
                              DeleteWhere(workout_logs, LAMBDA r : r.user_id = uid)
                       /\ end(Ev(kind, TRUE, "All workout data cleared!",
                                 <<button, sure>>, 0), TRUE)

ClearAllUnguarded(s, kind, button, sure, failAt) ==
    ClearAllIf(s, kind, button, sure, failAt, button)

ClearAll(s, kind, button, sure, failAt) ==
    ClearAllIf(s, kind, button, sure, failAt, button /\ sure)

(* show_settings: "Clear All Workout Data" is pressed.  The checkbox is    *)
(* created in this pass, or was left unticked by the pass before: its      *)
(* value is False (a tick is an interaction of its own).                   *)
show_settings_clear(s, failAt) ==
    ClearAll(s, "clear_all", TRUE, FALSE, failAt)

(* show_settings: the confirmation checkbox, on screen since the press, is *)
(* ticked.  In the pass the tick triggers the button is False.             *)
show_settings_confirm(s, failAt) ==
    /\ confirm_box[s]
    /\ ClearAll(s, "confirm_clear", FALSE, TRUE, failAt)

-----------------------------------------------------------------------------
(* Inputs of the forms *)
W3x10 == <<"3", "x", "1", "0">>
WPushUps == <<"P", "u", "s", "h", "-", "u", "p", "s">>
WBox == <<"B", "o", "x">>
WJumps == <<"j", "u", "m", "p", "s">>
WReps == <<"r", "e", "p", "s">>

(* "3x10 Push-ups" *)
Plan310 == W3x10 \o Sp \o WPushUps
(* "Warm-up: light jog" *)
PlanWarmUp ==
    <<"W", "a", "r", "m", "-", "u", "p", ":">> \o Sp \o <<"l", "i", "g", "h", "t">>
    \o Sp \o <<"j", "o", "g">>
(* "3×10 Box jumps" and "4×8 Box jumps" on two lines *)
PlanBox ==
    <<"3", Times, "1", "0">> \o Sp \o WBox \o Sp \o WJumps \o <<NL>>
    \o <<"4", Times, "8">> \o Sp \o WBox \o Sp \o WJumps
(* "0x5 Plank Reps" *)
PlanZero ==
    <<"0", "x", "5">> \o Sp \o <<"P", "l", "a", "n", "k">> \o Sp \o <<"R", "e", "p", "s">>
(* "Push-ups: 3 sets x 10 reps" *)
PlanSetsReps ==
    WPushUps \o <<":">> \o Sp \o <<"3">> \o Sp \o <<"s", "e", "t", "s">> \o Sp
    \o <<"x">> \o Sp \o <<"1", "0">> \o Sp \o WReps
PlanTexts == {Plan310, PlanWarmUp, PlanBox, PlanZero, PlanSetsReps}

ProfileForms ==
    {[name |-> "Alex", age |-> 16, gender |-> "Other", height |-> 170,
      weight |-> 65, target_weight |-> 60],
     [name |-> "", age |-> 16, gender |-> "Prefer not to say", height |-> 170,
      weight |-> 60, target_weight |-> 60]}
Weights == {60, 70}
Exercises == {"", "Push-ups"}
GroqResults == {<<ErrorMarker, "Error 500">>, <<"", Plan310>>}

(* The interactions of the login / signup pages and the navbar, with       *)
(* usernames from U, passwords from P and failing storage calls from F     *)
Auth(s, U, P, F) ==
    \/ \E u \in U, p \in P, f \in F \cap 0..1, fp \in F \cap 0..1 :
           show_login(s, u, p, f, fp)
    \/ show_login_signup_instead(s)
    \/ \E u \in U, e \in Emails, p \in P, c \in P, f \in F :
           show_signup(s, u, e, p, c, f)
    \/ show_signup_login_instead(s)
    \/ \E page \in AuthPages : show_navbar(s, page)
    \/ show_navbar_logout(s)

(* The interactions of the profile and progress pages *)
ProfilePages(s, forms, weights, F) ==
    \/ \E d \in forms, f \in F : show_profile(s, d, f)
    \/ \E w \in weights, f \in F : show_progress(s, w, f)

(* The interactions of the workout-log and AI pages *)
LogPages(s, dates, exercises, results, F) ==
    \/ \E d \in dates : show_workout_log_date(s, d)
    \/ \E e \in exercises, f \in F \cap 0..1 : show_workout_log_add(s, e, 3, 10, 0, "", f)
    \/ \E i \in 1..Len(workout_logs), f \in F \cap 0..1 : show_workout_log_toggle(s, i, f)
    \/ \E i \in 1..Len(workout_logs), f \in F \cap 0..1 : show_workout_log_delete(s, i, f)
    \/ \E r \in results, f \in F \cap 0..1 : show_ai_workout(s, r, f)
    \/ \E r \in results, f \in F \cap 0..1 : show_ai_meal(s, r, f)

(* Outcomes of the completion request *)
HttpOutcomes ==
    {Raises("timeout"), Raises("connection"),
     Response(200, Completion(Plan310)),
     Response(200, Text("<html>")),
     Response(200, Json([error |-> "overloaded"])),
     Response(200, Json([choices |-> <<>>])),
     Response(500, Text("Internal Server Error")),
     Response(429, Completion("slow down")),
     Response(401, Json([error |-> "invalid key"]))}

(* The interactions of the settings page *)
SettingsPages(s, P, F) ==
    \/ \E current \in P, new \in P, confirm \in P, f \in F \cap 0..1 :
           show_settings_password(s, current, new, confirm, f)
    \/ \E f \in F : show_settings_clear(s, f)
    \/ \E f \in F : show_settings_confirm(s, f)

(* Spec: every interaction of one session, two users, the storage answering *)
FormAlex ==
    [name |-> "Alex", age |-> 16, gender |-> "Other", height |-> 170,
     weight |-> 65, target_weight |-> 60]

(* a run inserts at most n data rows *)
Budget(n) == next_id' <= n + 1

Next ==
    /\ \E s \in {1} :
        \/ Auth(s, {"ann", "bob"}, {"pw1"}, {0})
        \/ ProfilePages(s, {FormAlex}, {70}, {0})
        \/ LogPages(s, Dates, {"Push-ups"}, GroqResults, {0})
    /\ Budget(MaxRows)

Spec == Init /\ [][Next]_vars

(* SpecProfile: one user on the profile and progress pages, any form and   *)
(* weight, any storage call failing                                        *)
NextProfile ==
    /\ \E s \in {1} :
        \/ Auth(s, {"ann"}, {"pw1"}, {0, 1})
        \/ ProfilePages(s, ProfileForms, Weights, {0, 1, 2})
    /\ Budget(MaxProfileRows)

SpecProfile == Init /\ [][NextProfile]_vars

(* SpecAuth: signup, login, navigation and logout with every username and  *)
(* password, any storage call failing                                      *)
NextAuth == \E s \in {1} : Auth(s, Usernames, Passwords, {0, 1, 2})

SpecAuth == Init /\ [][NextAuth]_vars

(* SpecPassword: one session on the settings page, every password in      *)
(* every field of the form, the update failing or not                      *)
NextPassword ==
    \E s \in {1} :
        \/ Auth(s, {"ann", "bob"}, Passwords, {0, 1})
        \/ SettingsPages(s, Passwords, {0, 1})

SpecPassword == Init /\ [][NextPassword]_vars

(* SpecSettings: one user who saves a profile, logs exercises, generates   *)
(* plans and uses the settings page, any delete failing                    *)
MaxSettingsRows == 3   \* data rows inserted in a run of SpecSettings

NextSettings ==
    /\ \E s \in {1} :
        \/ Auth(s, {"ann"}, {"pw1"}, {0})
        \/ show_profile(s, FormAlex, 0)
        \/ LogPages(s, Dates, {"Push-ups"}, GroqResults, {0})
        \/ SettingsPages(s, {"pw1"}, {0, 1, 2})
    /\ Budget(MaxSettingsRows)

SpecSettings == Init /\ [][NextSettings]_vars

(* SpecGroq: users with a saved profile on the two plan pages, the         *)
(* completion request ending in every outcome                              *)
MaxGroqRows == 3   \* data rows inserted in a run of SpecGroq

MaxScanRows == 3   \* data rows inserted in a run of SpecScan

NextScan ==
    /\ \E s \in {1} :
        \/ Auth(s, {"ann"}, {"pw1"}, {0})
        \/ show_profile(s, FormAlex, 0)
        \/ \E text \in PlanTexts, f \in {0, 1} : show_ai_workout(s, <<"", text>>, f)
        \/ \E i \in 1..Len(quick_add[s]), f \in {0, 1} : show_ai_workout_add(s, i, f)
    /\ Budget(MaxScanRows)

SpecScan == Init /\ [][NextScan]_vars

NextGroq ==
    /\ \E s \in {1} :
        \/ Auth(s, {"ann", "bob"}, {"pw1"}, {0})
        \/ show_profile(s, FormAlex, 0)
        \/ \E r \in HttpOutcomes, f \in {0, 1} : show_ai_workout(s, call_groq(r), f)
        \/ \E r \in HttpOutcomes, f \in {0, 1} : show_ai_meal(s, call_groq(r), f)
    /\ Budget(MaxGroqRows)

SpecGroq == Init /\ [][NextGroq]_vars

(* SpecRelogin: every account is created with password pw1; logins and    *)
(* password changes use pw1 and pw2, the select / update failing or not    *)
NextRelogin ==
    \E s \in {1} :
        \/ \E u \in {"ann", "bob"} : show_signup(s, u, "", "pw1", "pw1", 0)
        \/ show_login_signup_instead(s)
        \/ show_signup_login_instead(s)
        \/ \E u \in {"ann", "bob"}, p \in {"pw1", "pw2"}, f \in {0, 1} :
               show_login(s, u, p, f, 0)
        \/ \E page \in AuthPages : show_navbar(s, page)
        \/ show_navbar_logout(s)
        \/ \E current \in {"pw1", "pw2"}, new \in {"pw1", "pw2"}, f \in {0, 1} :
               show_settings_password(s, current, new, new, f)

SpecRelogin == Init /\ [][NextRelogin]_vars

(* SpecTwoSessions: two browser sessions of one user, each with its own    *)
(* session state, on the login, signup and settings pages                  *)
NextTwoSessions ==
    \E s \in Sessions :
        \/ Auth(s, {"ann"}, {"pw1", "pw2"}, {0})
        \/ \E current \in {"pw1", "pw2"}, new \in {"pw1", "pw2"} :
               show_settings_password(s, current, new, new, 0)

SpecTwoSessions == Init /\ [][NextTwoSessions]_vars

(* SpecSignupRace: two sessions on the signup page, the two store calls of *)
(* signup_user interleaving freely                                         *)
NextSignupRace ==
    \E s \in Sessions :
        \/ show_login_signup_instead(s)
        \/ show_signup_login_instead(s)
        \/ \E u \in {"ann", "bob"}, p \in {"pw1", "pw2"} :
               show_signup_select(s, u, "", p, p)
        \/ show_signup_insert(s)

SpecSignupRace == Init /\ [][NextSignupRace]_vars

-----------------------------------------------------------------------------
(* Properties *)

AuthHandlers == AuthPages

(* C1: in every script pass, a handler of an authenticated page (profile,  *)
(* workout_log, ai_workout, ai_meal, progress, settings) runs only with    *)
(* logged_in true; a pass with logged_in false runs show_login or          *)
(* show_signup, or no handler.                                             *)
C1_RouterChecksLogin ==
    \A i \in 1..Len(passes) :
        /\ passes[i].handler \in AuthHandlers => passes[i].logged_in
        /\ ~passes[i].logged_in => passes[i].handler \in {"login", "signup", "none"}

(* a logout: the pass after it ran show_login, unauthenticated *)
C1_Witness ==
    /\ last.kind = "logout"
    /\ Len(passes) = 2
    /\ passes[2].handler = "login"
    /\ ~passes[2].logged_in

(* C2: logged_in implies a session user, in every state, and every pass    *)
(* that ran an authenticated page handler had a session user.              *)
C2_LoggedInHasUser ==
    /\ \A s \in Sessions : logged_in[s] => user[s] # None
    /\ \A i \in 1..Len(passes) :
           passes[i].handler \in AuthHandlers => passes[i].has_user

(* logged in again after a logout, on an authenticated page *)
C2_Witness ==
    /\ logged_in[1]
    /\ user[1] # None
    /\ last.kind = "nav"
    /\ passes[2].handler = "settings"
    /\ Len(users) = 2
    /\ user[1][1].id = 2

(* C3: the active page is login or signup exactly when logged_in is false. *)
C3_PageMatchesLogin ==
    \A s \in Sessions :
        /\ current_page[s] \in Pages
        /\ current_page[s] \in {"login", "signup"} <=> ~logged_in[s]

(* back on the login page after a logout from the progress page *)
C3_Witness ==
    /\ last.kind = "logout"
    /\ current_page[1] = "login"
    /\ ~logged_in[1]
    /\ weight_log # <<>>

(* C4: a logout step starts authenticated and ends, in that one step, with *)
(* logged_in false, no session user, no session profile and page login.    *)
C4_LogoutResets ==
    [][\A s \in Sessions :
           (last'.kind = "logout" /\ last'.s = s /\ logged_in[s]) =>
               /\ ~logged_in'[s]
               /\ user'[s] = None
               /\ profile'[s] = None
               /\ current_page'[s] = "login"]_vars

(* logged out, and the stored profile of the user is still there *)
C4_Witness ==
    /\ last.kind = "logout"
    /\ ~logged_in[1] /\ user[1] = None /\ profile[1] = None
    /\ profiles # <<>>

(* the rows of the users table with username u *)
Named(tbl, u) == SelectEq(tbl, "username", u)

(* the signup form passes its checks: username and password given, the    *)
(* confirmation equal to the password                                      *)
SignupFormValid(input) == input[1] # "" /\ input[2] # "" /\ input[2] = input[3]

(* C5: a signup for a username that already has a row fails and leaves the *)
(* users table as it is: with the duplicate-username message whenever the  *)
(* form passes its checks and the existence select is answered.  A signup  *)
(* that succeeds appends one row holding the username and the digest of    *)
(* the password; no step changes a stored row, and no username ever has    *)
(* two rows.                                                               *)
C5_DuplicateSignupRejected ==
    [][/\ last'.kind = "signup" =>
              LET u == last'.input[1]
                  p == last'.input[2]
              IN /\ Named(users, u) # <<>> => (~last'.ok /\ users' = users)
                 /\ (Named(users, u) # <<>> /\ SignupFormValid(last'.input)
                         /\ last'.raised = 0)
                        => last'.msg = "Username already exists"
                 /\ last'.ok =>
                        /\ Len(users') = Len(users) + 1
                        /\ users'[Len(users')].username = u
                        /\ users'[Len(users')].password = hash_password(p)
       /\ \A i \in 1..Len(users) : Len(users') >= i /\ users'[i] = users[i]
       /\ \A u \in Usernames : Len(Named(users', u)) <= 1]_vars

(* a second signup for a stored username, with another password, refused  *)
C5_Witness ==
    /\ last.kind = "signup"
    /\ ~last.ok
    /\ last.msg = "Username already exists"
    /\ Len(Named(users, last.input[1])) = 1
    /\ Named(users, last.input[1])[1].password # hash_password(last.input[2])

(* C6: with a row stored by signup(u, p) (username u, digest of p), a      *)
(* login with u and p whose users select is answered succeeds: the session *)
(* is logged in and its user is that row.                                  *)
C6_LoginAfterSignup ==
    [][\A s \in Sessions :
           LET u == last'.input[1]
               p == last'.input[2]
               rows == SelectSeq(users, LAMBDA r :
                           r.username = u /\ r.password = hash_password(p))
           IN (last'.kind = "login" /\ last'.s = s /\ u # "" /\ p # ""
                   /\ rows # <<>> /\ last'.raised # 1)
              => /\ last'.ok
                 /\ logged_in'[s]
                 /\ user'[s] = Some(rows[1])
                 /\ user'[s][1].username = u]_vars

(* the second user of the table logged in with the password it signed up  *)
(* with                                                                    *)
C6_Witness ==
    /\ last.kind = "login"
    /\ last.ok
    /\ last.input = <<"bob", "pw2">>
    /\ logged_in[1]
    /\ user[1][1].username = "bob"
    /\ user[1][1].id = 2

(* C7: for the users table of every reachable state, any two failing       *)
(* logins return the same value, whether the username is stored (wrong     *)
(* password) or not; with the select answered the message is the           *)
(* invalid-credentials one, and that is what the login page reports.       *)
C7_LoginFailureUniform ==
    /\ \A u \in Usernames \ {""}, v \in Usernames \ {""} :
           \A p \in Passwords \ {""}, q \in Passwords \ {""} :
               \A f \in 0..1 :
                   LET a == login_user(users, u, p, f)
                       b == login_user(users, v, q, f)
                   IN (~a.ok /\ ~b.ok) =>
                          /\ a = b
                          /\ f = 0 => a.msg = "Invalid username or password"
    /\ (last.kind = "login" /\ ~last.ok /\ last.raised = 0
            /\ last.input[1] # "" /\ last.input[2] # "")
           => last.msg = "Invalid username or password"

(* a login with a stored username and a wrong password was refused, while  *)
(* another username is not stored                                          *)
C7_Witness ==
    /\ last.kind = "login"
    /\ ~last.ok
    /\ last.raised = 0
    /\ Named(users, last.input[1]) # <<>>
    /\ last.input[2] # ""
    /\ \E v \in Usernames \ {""} : Named(users, v) = <<>>

(* the six form fields of a profile row or dict *)
Fields(r) ==
    [name |-> r.name, age |-> r.age, gender |-> r.gender, height |-> r.height,
     weight |-> r.weight, target_weight |-> r.target_weight]

(* C8: after a successful save_profile for a user, the profiles table      *)
(* holds exactly one row of that user, carrying the fields of that call    *)
(* (so of the second of two calls).                                        *)
C8_SaveProfileOneRow ==
    (last.kind = "save_profile" /\ last.ok) =>
        LET rows == SelectEq(profiles, "user_id", last.uid)
        IN /\ Len(rows) = 1
           /\ Fields(rows[1]) = last.input[1]

(* C9: the profiles table holds at most one row per user_id.               *)
C9_OneProfilePerUser ==
    \A i \in 1..Len(profiles), j \in 1..Len(profiles) :
        profiles[i].user_id = profiles[j].user_id => i = j

(* the rows a step inserted, deleted or changed (old and new version) *)
Changed(old, new) ==
    (SeqToSet(old) \ SeqToSet(new)) \cup (SeqToSet(new) \ SeqToSet(old))

(* C10: in every interaction, made on behalf of user u (the session user,  *)
(* for a login the user who logs in), every row of profiles, workout_logs, *)
(* workouts, meals and weight_log that is inserted, changed or deleted has *)
(* user_id u, and every row a data-access call returns has user_id u; an   *)
(* interaction of a session without user touches and returns no row.       *)
C10_OwnRowsOnly ==
    [][LET u == last'.uid
       IN /\ \A r \in Changed(profiles, profiles') : r.user_id = u
          /\ \A r \in Changed(workout_logs, workout_logs') : r.user_id = u
          /\ \A r \in Changed(workouts, workouts') : r.user_id = u
          /\ \A r \in Changed(meals, meals') : r.user_id = u
          /\ \A r \in Changed(weight_log, weight_log') : r.user_id = u
          /\ returned' \subseteq {u}
          /\ u = NoId => returned' = {}]_vars

(* one user ticked off a workout-log row while the table holds a row of    *)
(* another user, for the same date                                         *)
C10_Witness ==
    /\ last.kind = "toggle_log"
    /\ last.ok
    /\ returned = {last.uid}
    /\ \E i \in 1..Len(workout_logs), j \in 1..Len(workout_logs) :
           /\ workout_logs[i].user_id = last.uid
           /\ workout_logs[i].completed
           /\ workout_logs[j].user_id # last.uid
           /\ workout_logs[j].date = workout_logs[i].date
           /\ ~workout_logs[j].completed

(* the hash the users table stores for the user with identifier uid *)
StoredHash(tbl, uid) == SelectEq(tbl, "id", uid)[1].password

(* C11: change_password is atomic between storage and session.  In every   *)
(* state the password hash in a logged-in session's user equals the hash   *)
(* the users table stores for that user, and every change_password         *)
(* attempt - successful, rejected, or interrupted by the update raising -  *)
(* leaves either both at the hash of the new password or both at their old *)
(* value.  (SpecPassword: the user is logged in from one session.)         *)
C11_PasswordAtomic ==
    /\ [](\A s \in Sessions :
            logged_in[s] => user[s][1].password = StoredHash(users, user[s][1].id))
    /\ [][last'.kind = "change_password" =>
            LET s == last'.s
                uid == user[s][1].id
                hashed_new == hash_password(last'.input[2])
            IN \/ /\ user'[s][1].password = hashed_new
                  /\ StoredHash(users', uid) = hashed_new
               \/ /\ user'[s][1].password = user[s][1].password
                  /\ StoredHash(users', uid) = StoredHash(users, uid)]_vars

C11_Witness ==
    /\ last.kind = "change_password"
    /\ last.ok
    /\ last.input[1] # last.input[2]
    /\ user[last.s][1].password = hash_password(last.input[2])
    /\ StoredHash(users, user[last.s][1].id) = hash_password(last.input[2])

(* C12: change_password(user, current, new, confirm) reports the wrong     *)
(* current password when hash(current) is not the hash in the user it is   *)
(* given, otherwise the mismatch when new differs from confirm, otherwise  *)
(* the empty password when new is empty; in each of the three the users    *)
(* table and the session's user are unchanged, and it reports success only *)
(* when none of the three applies (and then, the update answered, both     *)
(* hold the hash of new).                                                  *)
C12_PasswordErrors ==
    [][last'.kind = "change_password" =>
        LET s == last'.s
            current == last'.input[1]
            new == last'.input[2]
            confirm == last'.input[3]
            wrong == hash_password(current) # user[s][1].password
            mismatch == new # confirm
            empty == new = ""
            same == users' = users /\ user'[s] = user[s]
        IN /\ wrong => last'.msg = "Current password is incorrect" /\ same
           /\ ~wrong /\ mismatch => last'.msg = "New passwords don't match" /\ same
           /\ ~wrong /\ ~mismatch /\ empty =>
                  last'.msg = "New password cannot be empty" /\ same
           /\ last'.ok => ~wrong /\ ~mismatch /\ ~empty
           /\ ~wrong /\ ~mismatch /\ ~empty /\ last'.raised = 0 =>
                  /\ last'.ok
                  /\ user'[s][1].password = hash_password(new)
                  /\ StoredHash(users', user[s][1].id) = hash_password(new)]_vars

C12_Witness ==
    /\ last.kind = "change_password"
    /\ last.msg = "New passwords don't match"
    /\ last.input[1] = "pw1"
    /\ last.input[2] = ""
    /\ last.input[3] = "pw2"
    /\ user[last.s][1].password = hash_password("pw1")

(* the rows of table tbl that belong to user uid *)
Mine(tbl, uid) == SelectEq(tbl, "user_id", uid)

ClearAllKinds == {"clear_all", "confirm_clear"}

(* C13: the clear-all bulk delete fails closed.  A pass of the clear-all   *)
(* block in which the confirmation checkbox is not ticked - the pass of    *)
(* every press of "Clear All Workout Data" - deletes no row of workouts or *)
(* workout_logs, and no pass of the block removes part of the user's       *)
(* workout data: it leaves both tables as they were or leaves no row of    *)
(* the user in either.                                                     *)
C13_ClearAllFailsClosed ==
    [][last'.kind \in ClearAllKinds =>
        LET uid == user[last'.s][1].id
        IN /\ ~last'.input[2] => UNCHANGED <<workouts, workout_logs>>
           /\ \/ UNCHANGED <<workouts, workout_logs>>
              \/ /\ Mine(workouts', uid) = <<>>
                 /\ Mine(workout_logs', uid) = <<>>]_vars

C13_Witness ==
    /\ last.kind = "clear_all"
    /\ last.input = <<TRUE, FALSE>>
    /\ confirm_box[last.s]
    /\ Mine(workouts, user[last.s][1].id) # <<>>
    /\ Mine(workout_logs, user[last.s][1].id) # <<>>

(* C14: a user who presses "Clear All Workout Data" and then ticks the     *)
(* confirmation checkbox reaches a state in which every workouts and       *)
(* workout_logs row with their user_id has been deleted: the step of the   *)
(* tick leaves no row of the user in either table.                         *)
C14_ConfirmedClearDeletes ==
    [][last'.kind = "confirm_clear" =>
        /\ Mine(workouts', user[last'.s][1].id) = <<>>
        /\ Mine(workout_logs', user[last'.s][1].id) = <<>>]_vars

(* C15: no error is fatal and every handler recovers locally.  Whenever a  *)
(* storage call raised inside a page handler, the handler caught it and    *)
(* showed a message of its own (no exception left the handler), and the    *)
(* session's user still agrees with the stored row.                        *)
C15_FailuresCaught ==
    /\ last.raised # 0 => last.msg # Uncaught
    /\ \A s \in Sessions :
           logged_in[s] => SelectEq(users, "id", user[s][1].id) = <<user[s][1]>>

(* C16: the completion call never raises past its caller.  For every       *)
(* outcome of the HTTP request - the request raising (timeout, network     *)
(* failure), a status outside 2xx, a body that is not JSON or lacks the    *)
(* content - call_groq returns a string that begins with the error marker, *)
(* and it returns the generated text only for a successful response (and   *)
(* then the content of the body); the result a plan page works with is     *)
(* always such a value.                                                    *)
C16_CallGroqReturnsMarked ==
    /\ \A r \in HttpOutcomes :
           LET result == call_groq(r)
           IN /\ r.raises => Failed(result)
              /\ ~r.raises /\ r.status_code \notin 200..299 => Failed(result)
              /\ ~r.raises /\ ~HasContent(r.body) => Failed(result)
              /\ ~Failed(result) =>
                     /\ ~r.raises
                     /\ r.status_code \in 200..299
                     /\ result = <<"", r.body.doc.choices[1].message.content>>
    /\ last.kind \in {"gen_workout", "gen_meal"} =>
           \E r \in HttpOutcomes : last.input = <<call_groq(r)>>

C16_Witness ==
    /\ last.kind = "gen_meal"
    /\ last.input = <<call_groq(Response(500, Text("Internal Server Error")))>>
    /\ Failed(last.input[1])
    /\ ~last.ok
    /\ meals = <<>>

(* C17: list_workout_logs(user_id, date) returns exactly the stored        *)
(* workout-log rows whose user_id matches and whose date equals the        *)
(* filter, each once and never a row of another user, newest created       *)
(* first; without a date it returns all rows of that user.                 *)
C17_ListWorkoutLogs ==
    \A uid \in 1..MaxUsers, sel \in {None} \cup {Some(d) : d \in Dates} :
        LET result == get_workout_logs(workout_logs, uid, sel)
            wanted == {r \in SeqToSet(workout_logs) :
                          /\ r.user_id = uid
                          /\ (sel = None \/ r.date = strftime(sel[1]))}
        IN /\ SeqToSet(result) = wanted
           /\ Len(result) = Cardinality(wanted)
           /\ \A i \in 1..Len(result), j \in 1..Len(result) :
                  i < j => result[i].created_at > result[j].created_at

C17_Witness ==
    /\ Handler(1) = "workout_log"
    /\ Len(Listed(1)) = 1
    /\ \E i \in 1..Len(workout_logs) :
           /\ workout_logs[i].user_id # user[1][1].id
           /\ workout_logs[i].date = strftime(selected_date[1])

(* C18: add_workout_log(u, entry with completed=false) stores one new row  *)
(* for u with the entry's fields; update_workout_log(id, {completed:true}) *)
(* on a listed id then leaves that row with completed flipped and every    *)
(* other field as added, list_workout_logs(u, date) shows exactly one      *)
(* entry with that id, and no other workout-log row is changed.            *)
C18_AddThenUpdate ==
    [][/\ (last'.kind = "add_log" /\ last'.ok) =>
              LET s == last'.s
                  r == workout_logs'[Len(workout_logs')]
              IN /\ workout_logs' = Append(workout_logs, r)
                 /\ r.id \notin {workout_logs[i].id : i \in 1..Len(workout_logs)}
                 /\ r.user_id = user[s][1].id
                 /\ r.date = strftime(selected_date[s])
                 /\ <<r.exercise, r.sets, r.reps, r.notes>> =
                        <<last'.input[1], last'.input[2], last'.input[3], last'.input[5]>>
                 /\ r.completed = FALSE
       /\ (last'.kind = "toggle_log" /\ last'.raised = 0) =>
              LET s == last'.s
                  id == last'.input[1]
                  listed == get_workout_logs(workout_logs', user[s][1].id,
                                             Some(selected_date'[s]))
              IN /\ Len(workout_logs') = Len(workout_logs)
                 /\ \A i \in 1..Len(workout_logs) :
                        workout_logs'[i] =
                            IF workout_logs[i].id = id
                            THEN [workout_logs[i] EXCEPT !.completed = ~@]
                            ELSE workout_logs[i]
                 /\ Cardinality({i \in 1..Len(listed) : listed[i].id = id}) = 1]_vars

C18_Witness ==
    /\ last.kind = "toggle_log"
    /\ last.raised = 0
    /\ \E i \in 1..Len(workout_logs), j \in 1..Len(workout_logs) :
           /\ workout_logs[i].id = last.input[1]
           /\ workout_logs[i].completed
           /\ workout_logs[i].exercise = "Push-ups"
           /\ workout_logs[j].id # last.input[1]
           /\ ~workout_logs[j].completed

(* C19: profile round trip.  After the profile form is submitted with      *)
(* fields F and saved, get_profile(user_id) returns a row holding exactly  *)
(* F, the user_id and a generated id, and the session's profile is that    *)
(* stored row, id included.                                                *)
C19_ProfileRoundTrip ==
    (last.kind = "save_profile" /\ last.ok) =>
        LET got == get_user_profile(profiles, last.uid, 0)
        IN /\ got # None
           /\ Fields(got[1]) = last.input[1]
           /\ got[1].user_id = last.uid
           /\ got[1].id # NoId
           /\ profile[last.s] = got

C19_Witness ==
    /\ last.kind = "save_profile"
    /\ last.ok
    /\ last.input[1] = FormAlex
    /\ profile[last.s] # None
    /\ profile[last.s][1].id # NoId
    /\ profile[last.s][1].name = "Alex"
    /\ Len(profiles) = 1

(* C20: a successful add_weight_entry(user_id, w) appends one weight_log   *)
(* row (user_id, today, w) and sets the weight of that user's stored       *)
(* profile row and of the session's profile to w.                          *)
C20_AddWeightSetsProfile ==
    [][(last'.kind = "add_weight" /\ last'.ok) =>
          LET s == last'.s
              uid == user[s][1].id
              w == last'.input[1]
              r == weight_log'[Len(weight_log')]
          IN /\ weight_log' = Append(weight_log, r)
             /\ <<r.user_id, r.date, r.weight>> = <<uid, strftime(Today), w>>
             /\ Mine(profiles', uid) # <<>>
             /\ \A i \in 1..Len(profiles') :
                    profiles'[i].user_id = uid => profiles'[i].weight = w
             /\ profile'[s][1].weight = w]_vars

(* C23: the active page changes only through a navigation button or a      *)
(* successful auth operation.  A successful login moves login -> profile,  *)
(* a successful signup signup -> login, logout any authenticated page ->   *)
(* login; the navbar buttons and the two "instead" links are the           *)
(* navigation buttons.  Every other interaction - failed login, rejected   *)
(* signup, the forms and buttons of the authenticated pages - leaves the   *)
(* page of the session as it is, and no interaction changes the page of    *)
(* another session.                                                        *)
C23_PageTransitions ==
    [][\A s \in Sessions :
          LET k == last'.kind
              from == current_page[s]
              to == current_page'[s]
          IN /\ (s # last'.s => to = from)
             /\ (s = last'.s /\ k = "login" /\ last'.ok) =>
                    from = "login" /\ to = "profile"
             /\ (s = last'.s /\ k = "signup" /\ last'.ok) =>
                    from = "signup" /\ to = "login"
             /\ (s = last'.s /\ k = "logout") => from \in AuthPages /\ to = "login"
             /\ (s = last'.s /\ k = "nav") => to = last'.input[1]
             /\ (s = last'.s /\ k = "to_signup") => from = "login" /\ to = "signup"
             /\ (s = last'.s /\ k = "to_login") => from = "signup" /\ to = "login"
             /\ to # from =>
                    \/ k \in {"nav", "to_signup", "to_login", "logout"}
                    \/ k \in {"login", "signup"} /\ last'.ok]_vars

C23_Witness ==
    /\ last.kind = "add_log"
    /\ last.ok
    /\ current_page[last.s] = "workout_log"
    /\ Len(users) = 2

(* C25: the weight update is two separate writes.  When the weight_log     *)
(* insert is answered and the profiles write that follows raises, the new  *)
(* weight_log row stays stored, the profiles table and the session's       *)
(* profile keep their old value, and the handler reports an error.         *)
C25_WeightWritesNotAtomic ==
    [][(last'.kind = "add_weight" /\ last'.raised = 2) =>
          LET s == last'.s
              r == weight_log'[Len(weight_log')]
          IN /\ Len(weight_log') = Len(weight_log) + 1
             /\ weight_log' = Append(weight_log, r)
             /\ <<r.user_id, r.date, r.weight>> =
                    <<user[s][1].id, strftime(Today), last'.input[1]>>
             /\ profiles' = profiles
             /\ profile'[s] = profile[s]
             /\ ~last'.ok
             /\ last'.msg = "Error saving weight"]_vars

C25_Witness ==
    /\ last.kind = "add_weight"
    /\ last.raised = 2
    /\ last.input = <<70>>
    /\ profile[last.s][1].weight = 65
    /\ \E i \in 1..Len(weight_log) : weight_log[i].weight = 70
    /\ \E i \in 1..Len(profiles) : profiles[i].weight = 65

(* C27: after a successful change_password from old to new, logout, then   *)
(* login(u, new) succeeds and login(u, old) fails with the invalid-        *)
(* credentials error.  A successful change leaves hash(new) stored for the *)
(* user, nothing but a successful change alters a stored hash, and a login *)
(* whose select is answered succeeds exactly for the password whose hash   *)
(* is stored and otherwise reports invalid credentials.                    *)
C27_LoginAfterPasswordChange ==
    [][/\ (last'.kind = "change_password" /\ last'.ok) =>
              StoredHash(users', user[last'.s][1].id) = hash_password(last'.input[2])
       /\ \A i \in 1..Len(users) :
              users'[i].password # users[i].password =>
                  /\ last'.kind = "change_password"
                  /\ last'.ok
                  /\ users[i].id = user[last'.s][1].id
       /\ (last'.kind = "login" /\ last'.raised = 0) =>
              LET rows == Named(users, last'.input[1])
                  stored == rows # <<>> /\ rows[1].password = hash_password(last'.input[2])
              IN /\ stored => last'.ok /\ user'[last'.s] = Some(rows[1])
                 /\ ~stored => ~last'.ok /\ last'.msg = "Invalid username or password"]_vars

C27_Witness ==
    /\ last.kind = "login"
    /\ last.ok
    /\ last.input = <<"ann", "pw2">>
    /\ logged_in[last.s]
    /\ user[last.s][1].password = hash_password("pw2")

(* C28: a failed login (wrong credentials or storage error) and a rejected *)
(* signup (empty field, confirmation mismatch, duplicate username, storage *)
(* error) change no session field and insert no user row; a successful     *)
(* signup inserts exactly one user row and leaves the session              *)
(* unauthenticated with no user (only its page moves to login).            *)
C28_FailedAuthFrame ==
    [][/\ (last'.kind \in {"login", "signup"} /\ ~last'.ok) =>
              /\ users' = users
              /\ UNCHANGED <<logged_in, user, profile, current_page, selected_date>>
       /\ (last'.kind = "signup" /\ last'.ok) =>
              /\ Len(users') = Len(users) + 1
              /\ SubSeq(users', 1, Len(users)) = users
              /\ ~logged_in'[last'.s]
              /\ user'[last'.s] = None
              /\ UNCHANGED <<logged_in, user, profile, selected_date>>]_vars

C28_Witness ==
    /\ last.kind = "signup"
    /\ ~last.ok
    /\ last.msg = "Username already exists"
    /\ Len(users) = 1
    /\ current_page[last.s] = "signup"
    /\ ~logged_in[last.s]

WorkoutDataKinds == {"pick_date", "add_log", "toggle_log", "delete_log", "add_weight"}

(* C29: profile gate.  The workout-log and progress pages read or write    *)
(* workout_logs, weight_log and profiles only for a user who has a stored  *)
(* profile row: every interaction of theirs that issues a data-access call *)
(* is made by a user with a row in profiles.                               *)
C29_ProfileGate ==
    [][last'.kind \in WorkoutDataKinds => Mine(profiles, last'.uid) # <<>>]_vars

(* C30: plan generation stores a plan only on success.  With an            *)
(* error-marked result no row is added to workouts or meals; with          *)
(* generated text (the insert answered) exactly one row - the session      *)
(* user's id, today's date, that text - is appended to the table of the    *)
(* page used, and no existing plan row is changed.                         *)
C30_PlanStoredOnSuccess ==
    [][last'.kind \in {"gen_workout", "gen_meal"} =>
          LET result == last'.input[1]
              row == [user_id |-> user[last'.s][1].id, date |-> strftime(Today),
                      plan |-> result]
              added(old, new) ==
                  /\ Len(new) = Len(old) + 1
                  /\ SubSeq(new, 1, Len(old)) = old
                  /\ [f \in {"user_id", "date", "plan"} |-> new[Len(new)][f]] = row
          IN /\ Failed(result) => UNCHANGED <<workouts, meals>>
             /\ (~Failed(result) /\ last'.raised = 0 /\ last'.kind = "gen_workout") =>
                    added(workouts, workouts') /\ meals' = meals
             /\ (~Failed(result) /\ last'.raised = 0 /\ last'.kind = "gen_meal") =>
                    added(meals, meals') /\ workouts' = workouts
             /\ last'.raised # 0 => UNCHANGED <<workouts, meals>>]_vars

C30_Witness ==
    /\ last.kind = "gen_meal"
    /\ last.ok
    /\ ~Failed(last.input[1])
    /\ Len(meals) = 2
    /\ meals[2].user_id = user[last.s][1].id
    /\ meals[2].plan = last.input[1]

(* C26: with two sessions logged in as the same user, after one session    *)
(* successfully changes the password, change_password in the other         *)
(* session still judges current against the hash stored for the user: a    *)
(* current password whose hash is not the stored one is rejected as        *)
(* incorrect, and one whose hash is the stored one (new and confirm equal  *)
(* and not empty, the update answered) is accepted.                        *)
C26_CurrentJudgedAgainstStored ==
    [][last'.kind = "change_password" =>
          LET s == last'.s
              uid == user[s][1].id
              hashed_current == hash_password(last'.input[1])
              new == last'.input[2]
          IN /\ hashed_current # StoredHash(users, uid) =>
                    /\ last'.msg = "Current password is incorrect"
                    /\ users' = users
             /\ (/\ hashed_current = StoredHash(users, uid)
                 /\ new = last'.input[3]
                 /\ new # ""
                 /\ last'.raised = 0) =>
                    /\ last'.ok
                    /\ StoredHash(users', uid) = hash_password(new)]_vars

(* C24: username uniqueness holds in every reachable state of the users    *)
(* table, also when two sessions run signup for the same username with     *)
(* their existence check and insert interleaved: no two user rows share a  *)
(* username.                                                               *)
C24_UsernamesUnique ==
    \A i \in 1..Len(users), j \in 1..Len(users) :
        users[i].username = users[j].username => i = j

(* the number a run of digits denotes, None for anything else *)
Count(q) ==
    IF q # <<>> /\ \A i \in 1..Len(q) : q[i] \in Digits THEN Some(DigitsValue(q)) ELSE None

(* word is digits, 'x' or the multiplication sign, digits: sets and reps *)
SetsRepsToken(word, sets, reps) ==
    LET f == SplitOn(word, {"x", Times})
    IN /\ Len(f) = 2
       /\ Count(f[1]) = Some(sets)
       /\ Count(f[2]) = Some(reps)

(* C21: the text scan of the ai_workout page.  After a generation that     *)
(* returned the plan line "3x10 Push-ups" the page offers exactly one      *)
(* quick-add candidate, with sets 3, reps 10 and exercise "Push-ups";      *)
(* after one that returned "Warm-up: light jog" it offers none.            *)
C21_ScanExamples ==
    (last.kind = "gen_workout" /\ last.ok) =>
        LET text == last.input[1][2]
            cands == quick_add[last.s]
        IN /\ text = Plan310 =>
                  /\ Len(cands) = 1
                  /\ SetsRepsToken(cands[1].sets_reps, 3, 10)
                  /\ cands[1].exercise = WPushUps
           /\ text = PlanWarmUp => cands = <<>>

====
